---- MODULE Spec2Model ----
(***************************************************************************)
(* Model of the two programs of the repository:                            *)
(*   examples/camera/camera_orbit.rs   the orbit camera (setup, orbit)     *)
(*   tools/build-wasm-example/main.rs  the wasm build tool (main)          *)
(*                                                                         *)
(* Numbers.  The camera works on f32.  Angles are modelled in fixed point, *)
(* one unit = 1/Scale rad (0.0001 rad), lengths and unit-vector components *)
(* in units of 1/Scale, time in milliseconds.  Floating-point rounding is  *)
(* abstracted: "equal" in the model stands for "equal within epsilon" in   *)
(* the program.  A Quat is modelled by the rotation it denotes, written in *)
(* the normal form that Quat::to_euler(EulerRot::YXZ) returns.             *)
(***************************************************************************)
EXTENDS Integers, Sequences, FiniteSets, TLC

VARIABLES
    transform,      \* the camera entity's Transform: [translation, rotation]
    mouse_motion,   \* Res<AccumulatedMouseMotion>.delta: [x, y]
    mouse_buttons,  \* Res<ButtonInput<MouseButton>>: [left, right] pressed
    time_delta,     \* Res<Time>.delta_seconds(), in milliseconds
    pc,             \* position in the frame: "input" or "update"
    ticks,          \* number of orbit updates run so far
    cli,            \* build tool: parsed Args
    tool_pc,        \* build tool: position in main
    idx,            \* build tool: index of the example being processed
    features,       \* build tool: the features vector
    files,          \* build tool: files written by main itself
    log             \* build tool: commands run so far, in order

camVars == <<transform, mouse_motion, mouse_buttons, time_delta, pc, ticks>>
toolVars == <<cli, tool_pc, idx, features, files, log>>
vars == <<transform, mouse_motion, mouse_buttons, time_delta, pc, ticks,
          cli, tool_pc, idx, features, files, log>>

----------------------------------------------------------------------------
(* Bounds *)
MaxTicks == 3
MaxExamples == 2

(* Fixed-point resolution: 1 unit = 0.0001 (rad, or length) *)
Scale == 10000

(* std::f32::consts::FRAC_PI_2 = 1.5707964, in angle units *)
FRAC_PI_2 == 15708
PI == 2 * FRAC_PI_2
TAU == 2 * PI

Abs(a) == IF a < 0 THEN -a ELSE a

(* clamp that forgets the upper bound *)
clamp_lower_only(v, lo, hi) == IF v < lo THEN lo ELSE v

(* f32::clamp(self, min, max) *)
clamp(v, lo, hi) == IF v < lo THEN lo ELSE IF v > hi THEN hi ELSE v

(* An angle brought into (-PI, PI], the range of f32::atan2 *)
WrapAngle(a) ==
    LET m == a % TAU IN IF m > PI THEN m - TAU ELSE m

(* Fixed-point product of two values scaled by Scale, rounding toward 0 *)
FMul(a, b) ==
    LET p == a * b IN IF p < 0 THEN -((-p) \div Scale) ELSE p \div Scale

(* sin on [-PI/2, PI/2] by its Taylor polynomial of degree 9 *)
SinCore(x) ==
    LET x2 == FMul(x, x)
        t3 == FMul(x, x2) \div 6
        t5 == FMul(t3, x2) \div 20
        t7 == FMul(t5, x2) \div 42
        t9 == FMul(t7, x2) \div 72
    IN  x - t3 + t5 - t7 + t9

(* f32::sin, result scaled by Scale *)
Sin(a) ==
    LET w == WrapAngle(a)
        r == IF w > FRAC_PI_2 THEN PI - w
             ELSE IF w < -FRAC_PI_2 THEN -PI - w ELSE w
    IN  IF r < 0 THEN -SinCore(-r) ELSE SinCore(r)

(* f32::cos, result scaled by Scale *)
Cos(a) == Sin(a + FRAC_PI_2)

----------------------------------------------------------------------------
(* impl Default for CameraSettings *)
pitch_limit == FRAC_PI_2 - 100

CameraSettings_default ==
    [ orbit_distance |-> 20,                 \* 20.0
      pitch_speed    |-> 30,                 \* 0.003 rad per unit of motion
      pitch_range    |-> [start |-> -pitch_limit, end |-> pitch_limit],
      roll_speed     |-> 10,                 \* 1.0 rad/s = 10 units per ms
      yaw_speed      |-> 40 ]                \* 0.004 rad per unit of motion

camera_settings == CameraSettings_default

(* Quat::from_euler(EulerRot::YXZ, yaw, pitch, roll): the rotation          *)
(* Ry(yaw) * Rx(pitch) * Rz(roll), in the normal form of to_euler: yaw and  *)
(* roll in (-PI, PI], pitch in [-PI/2, PI/2]; at pitch = +-PI/2 (gimbal     *)
(* lock) only yaw -+ roll is determined and roll is reported as 0.          *)
from_euler(yaw, pitch, roll) ==
    LET p == WrapAngle(pitch)
        flip == p > FRAC_PI_2 \/ p < -FRAC_PI_2
        np == IF p > FRAC_PI_2 THEN PI - p
              ELSE IF p < -FRAC_PI_2 THEN -PI - p ELSE p
        ny == IF flip THEN yaw + PI ELSE yaw
        nr == IF flip THEN roll + PI ELSE roll
    IN  IF np = FRAC_PI_2 THEN [yaw |-> WrapAngle(ny - nr), pitch |-> np, roll |-> 0]
        ELSE IF np = -FRAC_PI_2 THEN [yaw |-> WrapAngle(ny + nr), pitch |-> np, roll |-> 0]
        ELSE [yaw |-> WrapAngle(ny), pitch |-> np, roll |-> WrapAngle(nr)]

(* Quat::to_euler(EulerRot::YXZ): (yaw, pitch, roll) of the rotation *)
to_euler(q) == <<q.yaw, q.pitch, q.roll>>

(* Transform::forward(): the rotation applied to -Z, a unit vector scaled   *)
(* by Scale.  Ry(yaw) * Rx(pitch) * (0,0,-1)                                *)
forward(q) ==
    [ x |-> -FMul(Cos(q.pitch), Sin(q.yaw)),
      y |-> Sin(q.pitch),
      z |-> -FMul(Cos(q.pitch), Cos(q.yaw)) ]

Vec3(x, y, z) == [x |-> x, y |-> y, z |-> z]
Vec3_ZERO == Vec3(0, 0, 0)
VSub(a, b) == Vec3(a.x - b.x, a.y - b.y, a.z - b.z)
VMulS(a, s) == Vec3(a.x * s, a.y * s, a.z * s)

(* setup: Transform::from_xyz(5.0, 5.0, 5.0).looking_at(Vec3::ZERO, Vec3::Y) *)
(* forward = (-1,-1,-1)/sqrt(3), up = Y:                                     *)
(*   yaw = atan2(1, 1) = 0.7854, pitch = -asin(1/sqrt(3)) = -0.6155, roll 0  *)
setup ==
    [ translation |-> Vec3(5 * Scale, 5 * Scale, 5 * Scale),
      rotation    |-> from_euler(7854, -6155, 0) ]

(* the second button test written as an else branch: left wins *)
roll_direction_left_wins(buttons) ==
    IF buttons.left THEN -1 ELSE IF buttons.right THEN 1 ELSE 0

(* orbit, lines 132-139: the roll direction from the pressed buttons *)
roll_direction(buttons) ==
    (IF buttons.left THEN -1 ELSE 0) + (IF buttons.right THEN 1 ELSE 0)

(* pointer motion multiplied by the elapsed seconds *)
delta_pitch_scaled(settings, delta, dt) ==
    (delta.y * settings.pitch_speed * dt) \div 1000

(* orbit, line 144 *)
delta_pitch_of(settings, delta, dt) == delta.y * settings.pitch_speed

(* orbit, line 145 *)
delta_yaw_of(settings, delta, dt) == delta.x * settings.yaw_speed

(* roll without the elapsed time: one roll_speed per second-long tick *)
delta_roll_unscaled(settings, buttons, dt) ==
    roll_direction(buttons) * (settings.roll_speed * 1000)

(* roll that ignores the buttons *)
delta_roll_always(settings, buttons, dt) == settings.roll_speed * dt

(* orbit, line 148 *)
delta_roll_of(settings, buttons, dt) ==
    roll_direction(buttons) * (settings.roll_speed * dt)

(* the yaw clamped like the pitch *)
new_rotation_yaw_clamped(rotation, settings, buttons, delta, dt) ==
    LET e == to_euler(rotation)
        pitch == clamp(e[2] + delta_pitch_of(settings, delta, dt),
                       settings.pitch_range.start, settings.pitch_range.end)
        roll == e[3] + delta_roll_of(settings, buttons, dt)
        yaw == clamp(e[1] + delta_yaw_of(settings, delta, dt),
                     settings.pitch_range.start, settings.pitch_range.end)
    IN  from_euler(yaw, pitch, roll)

(* the old pitch clamped, the delta added afterwards *)
new_rotation_clamp_first(rotation, settings, buttons, delta, dt) ==
    LET e == to_euler(rotation)
        pitch == clamp(e[2], settings.pitch_range.start, settings.pitch_range.end)
                    + delta_pitch_of(settings, delta, dt)
        roll == e[3] + delta_roll_of(settings, buttons, dt)
        yaw == e[1] + delta_yaw_of(settings, delta, dt)
    IN  from_euler(yaw, pitch, roll)

(* orbit, lines 150-160: the new rotation *)
new_rotation(rotation, settings, buttons, delta, dt) ==
    LET e == to_euler(rotation)
        pitch == clamp(e[2] + delta_pitch_of(settings, delta, dt),
                       settings.pitch_range.start, settings.pitch_range.end)
        roll == e[3] + delta_roll_of(settings, buttons, dt)
        yaw == e[1] + delta_yaw_of(settings, delta, dt)
    IN  from_euler(yaw, pitch, roll)

(* the camera placed in front of the target instead of behind it *)
new_translation_towards(rotation, settings) ==
    LET target == Vec3_ZERO
    IN  VSub(VMulS(forward(rotation), settings.orbit_distance), target)

(* the orbit distance left out *)
new_translation_no_distance(rotation, settings) ==
    LET target == Vec3_ZERO
    IN  VSub(target, forward(rotation))

(* orbit, lines 162-165: the new translation *)
new_translation(rotation, settings) ==
    LET target == Vec3_ZERO
    IN  VSub(target, VMulS(forward(rotation), settings.orbit_distance))

(* The whole orbit system as a function of the pose and the resources *)
orbit(t, settings, buttons, delta, dt) ==
    LET r == new_rotation(t.rotation, settings, buttons, delta, dt)
    IN  [ translation |-> new_translation(r, settings), rotation |-> r ]

----------------------------------------------------------------------------
(* Inputs of a frame.  dx = 100 turns the yaw by 0.4 rad, dx = -500 by     *)
(* -2 rad (two of them pass -PI).  dy = -400 runs into the lower pitch      *)
(* limit from the start pose in one tick; two dy = 363 end 0.0017 rad above *)
(* the upper limit, inside the 0.01 rad margin below PI/2.  Elapsed times   *)
(* in ms: a paused tick, one and two 60 Hz frames, a 2 s stall.             *)
DXs == {-500, 0, 100}
DYs == {-400, 0, 363}
DTs == {0, 16, 32, 2000}
NoButtons == [left |-> FALSE, right |-> FALSE]
BothButtons == [left |-> TRUE, right |-> TRUE]
ZeroMotion == [x |-> 0, y |-> 0]

(* The build tool before it is started *)
ToolIdle ==
    /\ cli = [examples |-> <<>>, test |-> FALSE, optimize_size |-> FALSE,
              frames |-> FALSE, webgpu |-> FALSE, debug |-> FALSE,
              features |-> <<>>]
    /\ tool_pc = "idle"
    /\ idx = 0
    /\ features = <<>>
    /\ files = {}
    /\ log = <<>>

(* State once the Startup schedule (setup) has run *)
Init ==
    /\ transform = setup
    /\ mouse_motion = ZeroMotion
    /\ mouse_buttons = NoButtons
    /\ time_delta = 0
    /\ pc = "input"
    /\ ticks = 0
    /\ ToolIdle

(* The engine refreshes the input and time resources before Update *)
SampleInput ==
    /\ pc = "input"
    /\ ticks < MaxTicks
    /\ \E dx \in DXs, dy \in DYs : mouse_motion' = [x |-> dx, y |-> dy]
    /\ \E l \in BOOLEAN, r \in BOOLEAN : mouse_buttons' = [left |-> l, right |-> r]
    /\ \E dt \in DTs : time_delta' = dt
    /\ pc' = "update"
    /\ UNCHANGED <<transform, ticks>>
    /\ UNCHANGED toolVars

(* The orbit system, run once per frame in Update *)
Orbit ==
    /\ pc = "update"
    /\ transform' = orbit(transform, camera_settings, mouse_buttons, mouse_motion, time_delta)
    /\ ticks' = ticks + 1
    /\ pc' = "input"
    /\ UNCHANGED <<mouse_motion, mouse_buttons, time_delta>>
    /\ UNCHANGED toolVars

Next == SampleInput \/ Orbit

Spec == Init /\ [][Next]_vars

----------------------------------------------------------------------------
(* The wasm build tool: main of tools/build-wasm-example *)

ExampleNames == {"breakout", "lighting"}

(* Sequences over S of length at most n *)
SeqsUpTo(S, n) == UNION {[1..k -> S] : k \in 0..n}

(* struct Args, as parsed by Args::parse(); frames is "is Some", webgpu is  *)
(* api = WebApi::Webgpu                                                     *)
Args ==
    [ examples : SeqsUpTo(ExampleNames, MaxExamples),
      test : BOOLEAN, optimize_size : BOOLEAN, frames : BOOLEAN,
      webgpu : BOOLEAN, debug : BOOLEAN,
      features : {<<>>, <<"trace">>} ]

(* the result of a command ignored *)
expect_ignored(ok, next) == next

(* Result::expect / unwrap: continue on Ok, panic on Err *)
expect(ok, next) == IF ok THEN next ELSE "panicked"

(* lines 72-86: the parameters of cargo build *)
parameters_of(fs, debug) ==
    (IF fs # <<>> THEN <<"--features", fs>> ELSE <<>>)
        \o (IF debug THEN <<>> ELSE <<"--release">>)

(* lines 81-86 *)
profile_of(debug) == IF debug THEN "debug" ELSE "release"

(* The step that follows wasm-bindgen, lines 101 and 106 *)
after_bindgen(c) ==
    IF c.optimize_size THEN "wasm_opt" ELSE IF c.test THEN "playwright" ELSE "next"

(* The step that follows wasm-opt, line 106 *)
after_opt(c) == IF c.test THEN "playwright" ELSE "next"

(* End of the loop body, line 117: the next example or the end of main *)
Advance(step, c, i) ==
    IF step # "next" THEN [pc |-> step, idx |-> i]
    ELSE IF i < Len(c.examples) THEN [pc |-> "cargo_build", idx |-> i + 1]
    ELSE [pc |-> "done", idx |-> i]

Command(name, example, args, ok) ==
    [cmd |-> name, example |-> example, args |-> args, ok |-> ok]

InitTool ==
    /\ transform = setup
    /\ mouse_motion = ZeroMotion
    /\ mouse_buttons = NoButtons
    /\ time_delta = 0
    /\ pc = "input"
    /\ ticks = 0
    /\ cli \in Args
    /\ tool_pc = "start"
    /\ idx = 0
    /\ features = <<>>
    /\ files = {}
    /\ log = <<>>

(* lines 49-54: parse, the assertion on the example list, the features *)
Start ==
    /\ tool_pc = "start"
    /\ tool_pc' = expect(cli.examples # <<>>, "config")
    /\ features' = IF cli.examples # <<>> THEN cli.features ELSE features
    /\ UNCHANGED <<cli, idx, files, log>>
    /\ UNCHANGED camVars

(* lines 55-67: the ci testing file and the extra features *)
Configure ==
    /\ tool_pc = "config"
    /\ \E ok \in BOOLEAN :
        LET created == cli.frames /\ ok
            failed == cli.frames /\ ~ok
            f1 == IF cli.frames THEN Append(features, "bevy_ci_testing") ELSE features
            f2 == IF cli.webgpu THEN Append(f1, "webgpu") ELSE f1
            a == Advance("next", cli, 0)
        IN  /\ files' = IF created THEN files \cup {"ci_testing_config.ron"} ELSE files
            /\ tool_pc' = expect(~failed, a.pc)
            /\ features' = IF tool_pc' = "panicked" THEN features ELSE f2
            /\ idx' = IF tool_pc' = "panicked" THEN idx ELSE a.idx
    /\ UNCHANGED <<cli, log>>
    /\ UNCHANGED camVars

(* lines 70-92: Shell::new().unwrap(), then cargo build *)
CargoBuild ==
    /\ tool_pc = "cargo_build"
    /\ \E sh_ok \in BOOLEAN, ok \in BOOLEAN :
        IF expect(sh_ok, "run") = "panicked"
        THEN /\ tool_pc' = "panicked"
             /\ log' = log
        ELSE /\ log' = Append(log, Command("cargo build", cli.examples[idx],
                                           parameters_of(features, cli.debug), ok))
             /\ tool_pc' = expect(ok, "wasm_bindgen")
    /\ UNCHANGED <<cli, idx, features, files>>
    /\ UNCHANGED camVars

(* lines 94-99 *)
WasmBindgen ==
    /\ tool_pc = "wasm_bindgen"
    /\ \E ok \in BOOLEAN :
        LET a == Advance(after_bindgen(cli), cli, idx)
        IN  /\ log' = Append(log, Command("wasm-bindgen", cli.examples[idx],
                                          <<profile_of(cli.debug)>>, ok))
            /\ tool_pc' = expect(ok, a.pc)
            /\ idx' = IF tool_pc' = "panicked" THEN idx ELSE a.idx
    /\ UNCHANGED <<cli, features, files>>
    /\ UNCHANGED camVars

(* lines 101-104 *)
WasmOpt ==
    /\ tool_pc = "wasm_opt"
    /\ \E ok \in BOOLEAN :
        LET a == Advance(after_opt(cli), cli, idx)
        IN  /\ log' = Append(log, Command("wasm-opt", cli.examples[idx], <<>>, ok))
            /\ tool_pc' = expect(ok, a.pc)
            /\ idx' = IF tool_pc' = "panicked" THEN idx ELSE a.idx
    /\ UNCHANGED <<cli, features, files>>
    /\ UNCHANGED camVars

(* lines 106-116 *)
Playwright ==
    /\ tool_pc = "playwright"
    /\ \E ok \in BOOLEAN :
        LET a == Advance("next", cli, idx)
        IN  /\ log' = Append(log, Command("npx playwright test", cli.examples[idx], <<>>, ok))
            /\ tool_pc' = expect(ok, a.pc)
            /\ idx' = IF tool_pc' = "panicked" THEN idx ELSE a.idx
    /\ UNCHANGED <<cli, features, files>>
    /\ UNCHANGED camVars

NextTool == Start \/ Configure \/ CargoBuild \/ WasmBindgen \/ WasmOpt \/ Playwright

SpecTool == InitTool /\ [][NextTool]_vars

----------------------------------------------------------------------------
(* Vocabulary of the properties *)

Yaw(t) == to_euler(t.rotation)[1]
Pitch(t) == to_euler(t.rotation)[2]
Roll(t) == to_euler(t.rotation)[3]

(* The step taken is a run of the orbit system *)
OrbitStep == pc = "update" /\ pc' = "input"

(* The state is the one an orbit update has just produced *)
AfterOrbit == pc = "input" /\ ticks > 0

(* The position the orbit keeps: target - forward(orientation) * distance *)
OnOrbit(t) ==
    t.translation = VSub(Vec3_ZERO, VMulS(forward(t.rotation), camera_settings.orbit_distance))

(* A vector from the camera to the target, in units of 0.01 *)
ToTarget(t) ==
    Vec3((0 - t.translation.x) \div 100, (0 - t.translation.y) \div 100,
         (0 - t.translation.z) \div 100)

(* Squared distance to the target, in units of 0.0001 *)
DistSq(t) ==
    LET d == ToTarget(t) IN d.x * d.x + d.y * d.y + d.z * d.z

(* Distance to the target is orbit_distance within 0.02 *)
AtOrbitDistance(t) ==
    LET r == camera_settings.orbit_distance * 100
    IN  DistSq(t) >= (r - 2) * (r - 2) /\ DistSq(t) <= (r + 2) * (r + 2)

(* forward(orientation) is parallel to target - position, same direction:   *)
(* the cross product vanishes (within 0.0015 rad) and the dot product is > 0 *)
Facing(t) ==
    LET f == forward(t.rotation)
        d == ToTarget(t)
        tol == 3 * Scale
    IN  /\ Abs(f.y * d.z - f.z * d.y) <= tol
        /\ Abs(f.z * d.x - f.x * d.z) <= tol
        /\ Abs(f.x * d.y - f.y * d.x) <= tol
        /\ f.x * d.x + f.y * d.y + f.z * d.z > 0

InPitchRange(p) ==
    p >= camera_settings.pitch_range.start /\ p <= camera_settings.pitch_range.end

----------------------------------------------------------------------------
(* C1: after every orbit update, whatever the inputs were, the pitch        *)
(* extracted from the camera orientation lies within                        *)
(* [pitch_range.start, pitch_range.end].                                    *)
C1_PitchClamp == ticks > 0 => InPitchRange(Pitch(transform))

(* an update whose upward motion ran into the upper limit *)
C1_Witness ==
    /\ AfterOrbit
    /\ mouse_motion.y > 0
    /\ Pitch(transform) = camera_settings.pitch_range.end

(* C2 as stated: at every observation point, the pose created by setup     *)
(* included, position = target - forward(orientation) * orbit_distance.     *)
C2_Original == OnOrbit(transform)

(* C2 amended: once an orbit update has run, position = target -            *)
(* forward(orientation) * orbit_distance; the pose created by setup points  *)
(* at the target but sits at distance sqrt(75) from it, not orbit_distance. *)
C2_Amended ==
    /\ ticks > 0 => OnOrbit(transform)
    /\ ticks = 0 => /\ Facing(transform)
                    /\ DistSq(transform) = 75 * 100 * 100
                    /\ ~AtOrbitDistance(transform)

(* a pose produced by an update that turned the camera *)
C2_Witness ==
    /\ AfterOrbit
    /\ mouse_motion.x # 0
    /\ mouse_motion.y # 0
    /\ OnOrbit(transform)

(* C3: after every orbit update, whatever the previous position was, the   *)
(* new position is target - forward(new orientation) * orbit_distance: it   *)
(* is at orbit_distance from the target and the new forward vector points   *)
(* from the new position to the target.                                     *)
C3_DistanceFacing ==
    [][OrbitStep => /\ OnOrbit(transform')
                    /\ AtOrbitDistance(transform')
                    /\ Facing(transform')]_vars

(* the first update: the previous position (5,5,5) was not on the orbit *)
C3_Witness ==
    /\ AfterOrbit
    /\ ticks = 1
    /\ transform.translation # setup.translation
    /\ AtOrbitDistance(transform)

ZeroInput == mouse_motion = ZeroMotion /\ mouse_buttons = NoButtons

(* C4 as stated: an update with dx = dy = 0 and no roll button leaves       *)
(* orientation and position unchanged for every pose, the setup pose        *)
(* included.                                                                *)
C4_Original ==
    [][(OrbitStep /\ ZeroInput) => transform' = transform]_vars

(* C4 amended: an update with dx = dy = 0 and no roll button, for any       *)
(* elapsed time, leaves the orientation unchanged for every pose, and       *)
(* leaves the position unchanged for every pose an earlier update produced; *)
(* on the pose created by setup it moves the position onto the orbit.       *)
C4_Amended ==
    [][(OrbitStep /\ ZeroInput) =>
          /\ transform'.rotation = transform.rotation
          /\ ticks > 0 => transform'.translation = transform.translation
          /\ ticks = 0 => /\ transform'.translation # transform.translation
                          /\ AtOrbitDistance(transform')]_vars

(* a zero-input update with time elapsed, run on a pose that was turned *)
C4_Witness ==
    /\ AfterOrbit
    /\ ticks >= 2
    /\ ZeroInput
    /\ time_delta > 0
    /\ transform.rotation # setup.rotation

(* C5: an update with both roll buttons held gives the same orientation    *)
(* and position as the same update with neither held; the roll delta of     *)
(* the tick is 0.                                                           *)
C5_RollCancellation ==
    [][(OrbitStep /\ mouse_buttons = BothButtons) =>
          /\ transform' = orbit(transform, camera_settings, NoButtons,
                                mouse_motion, time_delta)
          /\ delta_roll_of(camera_settings, mouse_buttons, time_delta) = 0
          /\ Roll(transform') = Roll(transform)]_vars

(* an update with both buttons held, time elapsed and the pointer moved *)
C5_Witness ==
    /\ AfterOrbit
    /\ mouse_buttons = BothButtons
    /\ time_delta > 0
    /\ mouse_motion.x # 0

(* C6: two updates from the same pose with the same dx, dy, no roll button *)
(* and different elapsed times give the same pitch and yaw.                 *)
C6_TimeIndependence ==
    [][(OrbitStep /\ mouse_buttons = NoButtons) =>
          \A dt \in DTs \cup {2 * time_delta + 1} :
              LET o == orbit(transform, camera_settings, mouse_buttons, mouse_motion, dt)
              IN  /\ Pitch(o) = Pitch(transform')
                  /\ Yaw(o) = Yaw(transform')]_vars

(* an update without buttons, with pointer motion on both axes *)
C6_Witness ==
    /\ AfterOrbit
    /\ mouse_buttons = NoButtons
    /\ mouse_motion.x # 0
    /\ mouse_motion.y # 0
    /\ time_delta > 0
    /\ Pitch(transform) # Pitch(setup)

OneButton == mouse_buttons.left # mouse_buttons.right

(* C7: with exactly one roll button held and dx = dy = 0 the roll delta of *)
(* the tick is direction * roll_speed * elapsed (direction -1 left, +1      *)
(* right): the new orientation has that much more roll, twice the elapsed   *)
(* time gives twice the roll delta, and elapsed time 0 gives roll delta 0.  *)
C7_RollScaling ==
    [][(OrbitStep /\ OneButton /\ mouse_motion = ZeroMotion) =>
          LET dir == IF mouse_buttons.left THEN -1 ELSE 1
              d == dir * camera_settings.roll_speed * time_delta
              twice == orbit(transform, camera_settings, mouse_buttons,
                             mouse_motion, 2 * time_delta)
          IN  /\ transform'.rotation =
                    from_euler(Yaw(transform), Pitch(transform), Roll(transform) + d)
              /\ twice.rotation =
                    from_euler(Yaw(transform), Pitch(transform), Roll(transform) + 2 * d)
              /\ time_delta = 0 => transform'.rotation = transform.rotation]_vars

(* a roll-only update that took time and changed the roll *)
C7_Witness ==
    /\ AfterOrbit
    /\ OneButton
    /\ mouse_motion = ZeroMotion
    /\ time_delta > 0
    /\ Roll(transform) # 0

(* C8: an update with dy = 0 and no roll button, from a pose whose pitch   *)
(* is within the pitch range, turns the yaw by dx * yaw_speed (as an angle, *)
(* a full turn being no turn) and leaves pitch and roll unchanged; the yaw  *)
(* is not clamped.                                                          *)
C8_YawOnly ==
    [][(OrbitStep /\ mouse_motion.y = 0 /\ mouse_buttons = NoButtons
          /\ InPitchRange(Pitch(transform))) =>
          LET dyaw == mouse_motion.x * camera_settings.yaw_speed
          IN  /\ transform'.rotation =
                    from_euler(Yaw(transform) + dyaw, Pitch(transform), Roll(transform))
              /\ (Yaw(transform') - (Yaw(transform) + dyaw)) % TAU = 0
              /\ Pitch(transform') = Pitch(transform)
              /\ Roll(transform') = Roll(transform)]_vars

(* dx = 100: the yaw has grown by 0.4 rad more than once *)
C8_Witness ==
    /\ AfterOrbit
    /\ mouse_motion = [x |-> 100, y |-> 0]
    /\ mouse_buttons = NoButtons
    /\ Yaw(transform) = Yaw(setup) + 2 * 4000

(* C9: the pitch clamp accumulates no overshoot: when pitch + delta_pitch  *)
(* passes a limit the new pitch is exactly that limit, and from a pose at   *)
(* a limit a tick whose delta_pitch d points back into the range gives      *)
(* pitch = limit + d (clamped to the range).                                *)
C9_NoOvershoot ==
    [][OrbitStep =>
          LET lo == camera_settings.pitch_range.start
              hi == camera_settings.pitch_range.end
              p == Pitch(transform)
              d == mouse_motion.y * camera_settings.pitch_speed
          IN  /\ p + d > hi => Pitch(transform') = hi
              /\ p + d < lo => Pitch(transform') = lo
              /\ (p = hi /\ d < 0) => Pitch(transform') = clamp(hi + d, lo, hi)
              /\ (p = lo /\ d > 0) => Pitch(transform') = clamp(lo + d, lo, hi)]_vars

(* a tick back into the range from the upper limit *)
C9_Witness ==
    /\ AfterOrbit
    /\ mouse_motion.y < 0
    /\ Pitch(transform) = camera_settings.pitch_range.end
                            + mouse_motion.y * camera_settings.pitch_speed

----------------------------------------------------------------------------
(* The commands a complete run executes, in order *)
StepsOf(c) ==
    <<"cargo build", "wasm-bindgen">>
        \o (IF c.optimize_size THEN <<"wasm-opt">> ELSE <<>>)
        \o (IF c.test THEN <<"npx playwright test">> ELSE <<>>)

RECURSIVE ExpectedFrom(_, _)
ExpectedFrom(c, i) ==
    IF i > Len(c.examples) THEN <<>>
    ELSE [k \in 1..Len(StepsOf(c)) |-> <<StepsOf(c)[k], c.examples[i]>>]
            \o ExpectedFrom(c, i + 1)

Expected(c) == ExpectedFrom(c, 1)

Executed == [k \in 1..Len(log) |-> <<log[k].cmd, log[k].example>>]

(* C10: examples are processed in command-line order, each with the steps  *)
(* cargo build, wasm-bindgen, wasm-opt (if optimize_size), playwright (if   *)
(* test) in that order; a failed step is the last step ever run; with an    *)
(* empty example list no step is run.                                       *)
C10_StepOrder ==
    /\ Len(Executed) <= Len(Expected(cli))
    /\ Executed = SubSeq(Expected(cli), 1, Len(Executed))
    /\ \A k \in 1..(Len(log) - 1) : log[k].ok
    /\ cli.examples = <<>> => log = <<>>
    /\ tool_pc = "done" => Executed = Expected(cli)

(* a run aborted by a failed step of the first of two examples *)
C10_Witness ==
    /\ tool_pc = "panicked"
    /\ Len(cli.examples) = 2
    /\ idx = 1
    /\ Len(log) >= 3
    /\ ~log[Len(log)].ok
====
